---- MODULE Spec2Model ----
(***************************************************************************)
(* Model of the evaluation pipeline of notebooks/run_eval_single.ipynb:    *)
(* record normalizer, reviewer retry loop, response parsing, judge batch,  *)
(* judge join and compute_all_metrics.                                     *)
(*                                                                         *)
(* Tables (pandas DataFrames) are sequences of records, one per row.  A    *)
(* cell that may hold either a scalar or a python list is wrapped:         *)
(* [s |-> v] is the scalar v, [l |-> xs] is the list xs, [str |-> xs] is  *)
(* the text of the list xs, Null is NaN/None.                              *)
(* Ratios (python floats) are kept exact as [num |-> n, den |-> d], d > 0. *)
(***************************************************************************)
EXTENDS Integers, Sequences, FiniteSets, TLC

VARIABLES
    pc,            \* position in the notebook / in the specification at hand
    orig_df,       \* raw table, one row per (paper, annotation)  (line 100)
    flat_orig_df,  \* normalized table, one row per identifier    (line 112)
    runs,          \* how many times the normalizer has been applied
    prev_df,       \* the table the last normalizer run was applied to
    papers,        \* identifiers in prompt order                 (line 159)
    qi,            \* index of the query the reviewer loop is at  (line 172)
    attempt,       \* attempt number of the inner loop            (line 173)
    responses,     \* reviewer responses                          (line 171)
    resp_df,       \* resp_df                                     (line 184)
    error_cases,   \* error_cases                                 (line 192)
    qrys,          \* judge prompts                               (line 193)
    judge_responses, \* result of batch_completion                (line 213)
    metrics,       \* result of compute_all_metrics               (line 231)
    prev_metrics   \* result of the evaluation this one is compared with

vars == <<pc, orig_df, flat_orig_df, runs, prev_df, papers, qi, attempt,
          responses, resp_df, error_cases, qrys, judge_responses,
          metrics, prev_metrics>>

----------------------------------------------------------------------------
(* Bounds of the model *)

MaxRows == 3
MaxPipelineRows == 2
MaxMetricRows == 2
MaxIds == 2
MaxErrs == 1
MaxMatches == 2

(* for attempt in range(1, 6) *)
MaxAttempts == 5

----------------------------------------------------------------------------
(* Values *)

Null == [null |-> TRUE]
Scalar(v) == [s |-> v]
ListOf(xs) == [l |-> xs]
IsList(x) == DOMAIN x = {"l"}
IsStr(x) == DOMAIN x = {"str"}

Ids == 1..MaxIds
Locs == {"l1", "l2"}
Anns == {"a1", "a2"}
Contents == {"c1", "c2"}

RawRows ==
    [id : Ids, paper_category : {Scalar("cat")}, error_location : {Scalar(x) : x \in Locs},
     error_annotation : {Scalar(x) : x \in Anns}, paper_content : {Scalar(x) : x \in Contents}]

SeqsUpTo(S, n) == UNION {[1..k -> S] : k \in 0..n}

RawTables == SeqsUpTo(RawRows, MaxRows) \ {<<>>}

RECURSIVE SortedSeq(_)
SortedSeq(S) ==
    IF S = {} THEN <<>>
    ELSE LET m == CHOOSE x \in S : \A y \in S : x <= y
         IN <<m>> \o SortedSeq(S \ {m})

----------------------------------------------------------------------------
(* Record normalizer: groupby('doi/arxiv_id', as_index=False).agg(agg_dict) *)

list_cols == {"paper_category", "error_location", "error_annotation"}

Group(df, key) == SelectSeq(df, LAMBDA r : r.id = key)

(* a list aggregator that loses the source row order *)
AggListReversed(g, col) == ListOf([j \in 1..Len(g) |-> g[Len(g) + 1 - j][col]])

(* a list column aggregated like the other columns *)
AggListAsFirst(g, col) == g[1][col]

(* agg function `list`: the group's cells of one column, in row order *)
AggList(g, col) == ListOf([j \in 1..Len(g) |-> g[j][col]])

(* agg function 'first': the group's first cell of one column *)
AggFirst(g, col) == g[1][col]

agg_dict(g, col) == IF col \in list_cols THEN AggList(g, col) ELSE AggFirst(g, col)

NormalizeRow(df, key) ==
    LET g == Group(df, key)
    IN [id |-> key,
        paper_category   |-> agg_dict(g, "paper_category"),
        error_location   |-> agg_dict(g, "error_location"),
        error_annotation |-> agg_dict(g, "error_annotation"),
        paper_content    |-> agg_dict(g, "paper_content")]

(* groupby sorts the group keys; every group holds at least one row *)
Normalize(df) ==
    LET keys == SortedSeq({df[j].id : j \in 1..Len(df)})
    IN [j \in 1..Len(keys) |-> NormalizeRow(df, keys[j])]

----------------------------------------------------------------------------
(* Model responses.  A completion either raises or returns a response     *)
(* whose text is JSON of the expected form or is not ("garbage").          *)

Raised == [raised |-> TRUE]

ErrorLists == {[j \in 1..n |-> j] : n \in 0..MaxErrs}

Match(j) == [description |-> j]
MatchNoDescription == [location |-> 1]

MatchLists == {[j \in 1..n |-> Match(j)] : n \in 0..MaxMatches} \cup {<<MatchNoDescription>>}

Garbage == [kind |-> "garbage"]

ReviewerResponses ==
    {Garbage} \cup
    {[kind |-> "json", has_error |-> b, errors |-> es, matches |-> <<>>] :
        b \in BOOLEAN, es \in ErrorLists}

(* a slot of batch_completion holds the exception when its call failed *)
JudgeResponses ==
    {Garbage, Raised} \cup
    {[kind |-> "json", has_error |-> FALSE, errors |-> <<>>, matches |-> ms] : ms \in MatchLists}

(* extract_response_dict: an absent or uninterpretable response gives     *)
(* parsed = False with has_error = True; list fields default to [].        *)
extract_response_dict(resp) ==
    IF resp = Null \/ resp = Raised \/ resp.kind = "garbage"
    THEN [parsed |-> FALSE, has_error |-> TRUE, errors |-> <<>>, matches |-> <<>>]
    ELSE [parsed |-> TRUE, has_error |-> resp.has_error, errors |-> resp.errors,
          matches |-> resp.matches]

----------------------------------------------------------------------------
(* Reviewer stage *)

(* papers.append(row['doi/arxiv_id']) for every row of flat_orig_df *)
PaperIds(flat) == [j \in 1..Len(flat) |-> flat[j].id]

(* the row of a table with a given identifier, Null when there is none *)
RowOf(df, id) ==
    IF \E j \in 1..Len(df) : df[j].id = id
    THEN df[CHOOSE j \in 1..Len(df) : df[j].id = id]
    ELSE Null

(* resp_df = DataFrame({...}).merge(flat_orig_df, on=['doi/arxiv_id']) *)
ReviewerTable(ids, resps, flat) ==
    LET parsed_results == [j \in 1..Len(resps) |-> extract_response_dict(resps[j])]
        left == [j \in 1..Len(ids) |->
                    [id       |-> ids[j],
                     parsed   |-> parsed_results[j].parsed,
                     is_error |-> parsed_results[j].has_error,
                     errors   |-> ListOf(parsed_results[j].errors)]]
        kept == SelectSeq(left, LAMBDA r : RowOf(flat, r.id) # Null)
    IN [j \in 1..Len(kept) |-> kept[j] @@ RowOf(flat, kept[j].id)]

----------------------------------------------------------------------------
(* Judge stage *)

(* resp_df.loc[resp_df["parsed"] & resp_df["is_error"], :] *)
ErrorCases(df) == SelectSeq(df, LAMBDA r : r.parsed /\ r.is_error)

MinOf(a, b) == IF a <= b THEN a ELSE b
MaxOf(a, b) == IF a >= b THEN a ELSE b

JudgePrompt(row) ==
    LET loc == row.error_location.l
        ann == row.error_annotation.l
    IN [annotations |-> [j \in 1..MinOf(Len(loc), Len(ann)) |->
                            [location |-> loc[j], description |-> ann[j]]],
        predictions |-> row.errors.l]

JudgePrompts(cases) == [j \in 1..Len(cases) |-> JudgePrompt(cases[j])]

(* m.get("description", "") *)
Description(m) == IF "description" \in DOMAIN m THEN m.description ELSE ""

(* zip(resp_df["doi/arxiv_id"], parsed_results) *)
JudgeKeys(df, cases) == PaperIds(df)

JudgeRecords(df, cases, jresps) ==
    LET parsed_results == [j \in 1..Len(jresps) |-> extract_response_dict(jresps[j])]
        keys == JudgeKeys(df, cases)
    IN [j \in 1..MinOf(Len(keys), Len(parsed_results)) |->
           [id                 |-> keys[j],
            matches            |-> ListOf(parsed_results[j].matches),
            match_descriptions |-> ListOf([n \in 1..Len(parsed_results[j].matches) |->
                                            Description(parsed_results[j].matches[n])])]]

(* DataFrame.from_records([]) has no columns, so merging on the key raises *)
MergeRaises(records) == records = <<>>

(* resp_df.merge(judge_df, on="doi/arxiv_id", how="left") *)
LeftMerge(df, records) ==
    [j \in 1..Len(df) |->
        LET r == RowOf(records, df[j].id)
        IN df[j] @@ (IF r = Null
                     THEN [matches |-> Null, match_descriptions |-> Null]
                     ELSE [matches |-> r.matches, match_descriptions |-> r.match_descriptions])]

----------------------------------------------------------------------------
(* Exact ratios for the float results *)

RECURSIVE GCD(_, _)
GCD(a, b) == IF b = 0 THEN a ELSE GCD(b, a % b)

Abs(x) == IF x < 0 THEN -x ELSE x

(* n / d for d > 0, in lowest terms *)
Ratio(n, d) ==
    LET g == GCD(Abs(n), d)
    IN [num |-> n \div g, den |-> d \div g]

Zero == Ratio(0, 1)

RatAdd(a, b) == Ratio(a.num * b.den + b.num * a.den, a.den * b.den)

RECURSIVE RatSum(_)
RatSum(rs) == IF rs = <<>> THEN Zero ELSE RatAdd(rs[1], RatSum(Tail(rs)))

RECURSIVE SumSeq(_)
SumSeq(xs) == IF xs = <<>> THEN 0 ELSE xs[1] + SumSeq(Tail(xs))

(* Series.mean(): nan on an empty series *)
Mean(rs) ==
    IF rs = <<>> THEN Null
    ELSE LET t == RatSum(rs) IN Ratio(t.num, t.den * Len(rs))

----------------------------------------------------------------------------
(* compute_all_metrics *)

(* eval(x) if isinstance(x, str) else [] *)
MatchesAsList(x) == IF IsStr(x) THEN x.str ELSE <<>>

(* x if isinstance(x, list) else [] *)
AsList(x) == IF IsList(x) THEN x.l ELSE <<>>

(* a false-positive count floored at zero *)
FPClamped(nerrors, tp) == MaxOf(0, nerrors - tp)

(* a perfect-paper test that also asks for no false positive *)
PerfectNoFP(row) == row.TP_i = row.k_i /\ row.FP_i = 0

(* max(len(m), len(md)) *)
TP(m, md) == MaxOf(Len(m), Len(md))

(* df["errors"].apply(len) - df["TP_i"] *)
FP(nerrors, tp) == nerrors - tp

(* df["k_i"] - df["TP_i"] *)
FN(k, tp) == k - tp

Counts(row) ==
    LET k  == Len(row.error_annotation.l)
        tp == TP(MatchesAsList(row.matches), AsList(row.match_descriptions))
    IN [id |-> row.id, k_i |-> k, TP_i |-> tp,
        FP_i |-> FP(Len(AsList(row.errors)), tp), FN_i |-> FN(k, tp)]

(* df["TP_i"] == df["k_i"] *)
Perfect(row) == row.TP_i = row.k_i

(* a / b if b > 0 else 0.0 *)
SafeRatio(a, b) == IF b > 0 THEN Ratio(a, b) ELSE Zero

compute_all_metrics(df) ==
    LET per_paper == [j \in 1..Len(df) |-> Counts(df[j])]
        N         == Len(df)
        TP_total  == SumSeq([j \in 1..N |-> per_paper[j].TP_i])
        FP_total  == SumSeq([j \in 1..N |-> per_paper[j].FP_i])
        FN_total  == SumSeq([j \in 1..N |-> per_paper[j].FN_i])
        per_prec  == [j \in 1..N |->
                        SafeRatio(per_paper[j].TP_i, per_paper[j].TP_i + per_paper[j].FP_i)]
        per_rec   == [j \in 1..N |->
                        SafeRatio(per_paper[j].TP_i, per_paper[j].TP_i + per_paper[j].FN_i)]
        perfect   == Cardinality({j \in 1..N : Perfect(per_paper[j])})
    IN [N               |-> N,
        precision_micro |-> SafeRatio(TP_total, TP_total + FP_total),
        recall_micro    |-> SafeRatio(TP_total, TP_total + FN_total),
        precision_macro |-> Mean(per_prec),
        recall_macro    |-> Mean(per_rec),
        PPR             |-> IF N = 0 THEN Null ELSE Ratio(perfect, N),
        per_paper       |-> per_paper]

----------------------------------------------------------------------------
(* The notebook run, cell by cell *)

(* paper text and annotation wording do not steer the pipeline: one value each *)
PipelineRows ==
    {r \in RawRows : /\ r.error_location = Scalar("l1")
                     /\ r.error_annotation = Scalar("a1")
                     /\ r.paper_content = Scalar("c1")}

PipelineTables == SeqsUpTo(PipelineRows, MaxPipelineRows) \ {<<>>}

Init ==
    /\ pc = "normalize"
    /\ orig_df \in PipelineTables
    /\ flat_orig_df = <<>>
    /\ runs = 0
    /\ prev_df = <<>>
    /\ papers = <<>>
    /\ qi = 0
    /\ attempt = 0
    /\ responses = <<>>
    /\ resp_df = <<>>
    /\ error_cases = <<>>
    /\ qrys = <<>>
    /\ judge_responses = <<>>
    /\ metrics = Null
    /\ prev_metrics = Null

(* lines 106-116 *)
NormalizeRecords ==
    /\ pc = "normalize"
    /\ flat_orig_df' = Normalize(orig_df)
    /\ prev_df' = orig_df
    /\ runs' = runs + 1
    /\ pc' = "prompts"
    /\ UNCHANGED <<orig_df, papers, qi, attempt, responses, resp_df,
                   error_cases, qrys, judge_responses, metrics, prev_metrics>>

(* lines 158-171: one reviewer prompt per row, then the loop starts *)
BuildReviewerPrompts ==
    /\ pc = "prompts"
    /\ papers' = PaperIds(flat_orig_df)
    /\ responses' = <<>>
    /\ qi' = 1
    /\ attempt' = 1
    /\ pc' = "review"
    /\ UNCHANGED <<orig_df, flat_orig_df, runs, prev_df, resp_df, error_cases,
                   qrys, judge_responses, metrics, prev_metrics>>

(* a failure handler that gives up without recording the absent response *)
ReviewerCallRaisesNoSlot ==
    /\ pc = "review"
    /\ qi <= Len(papers)
    /\ IF attempt = MaxAttempts
       THEN /\ qi' = qi + 1
            /\ attempt' = 1
       ELSE /\ attempt' = attempt + 1
            /\ qi' = qi
    /\ UNCHANGED <<pc, orig_df, flat_orig_df, runs, prev_df, papers, responses, resp_df,
                   error_cases, qrys, judge_responses, metrics, prev_metrics>>

(* lines 174-177: completion() returns; append the response and break *)
ReviewerCallReturns ==
    /\ pc = "review"
    /\ qi <= Len(papers)
    /\ \E res \in ReviewerResponses : responses' = Append(responses, res)
    /\ qi' = qi + 1
    /\ attempt' = 1
    /\ UNCHANGED <<pc, orig_df, flat_orig_df, runs, prev_df, papers, resp_df,
                   error_cases, qrys, judge_responses, metrics, prev_metrics>>

(* lines 178-181: completion() raises; None after the fifth attempt, else retry *)
ReviewerCallRaises ==
    /\ pc = "review"
    /\ qi <= Len(papers)
    /\ IF attempt = MaxAttempts
       THEN /\ responses' = Append(responses, Null)
            /\ qi' = qi + 1
            /\ attempt' = 1
       ELSE /\ attempt' = attempt + 1
            /\ UNCHANGED <<responses, qi>>
    /\ UNCHANGED <<pc, orig_df, flat_orig_df, runs, prev_df, papers, resp_df,
                   error_cases, qrys, judge_responses, metrics, prev_metrics>>

(* lines 183-190: the loop is over; parse and build resp_df *)
ParseReviewer ==
    /\ pc = "review"
    /\ qi > Len(papers)
    /\ resp_df' = ReviewerTable(papers, responses, flat_orig_df)
    /\ pc' = "judge_prompts"
    /\ UNCHANGED <<orig_df, flat_orig_df, runs, prev_df, papers, qi, attempt, responses,
                   error_cases, qrys, judge_responses, metrics, prev_metrics>>

(* lines 192-209 *)
BuildJudgePrompts ==
    /\ pc = "judge_prompts"
    /\ error_cases' = ErrorCases(resp_df)
    /\ qrys' = JudgePrompts(ErrorCases(resp_df))
    /\ pc' = "judge"
    /\ UNCHANGED <<orig_df, flat_orig_df, runs, prev_df, papers, qi, attempt, responses,
                   resp_df, judge_responses, metrics, prev_metrics>>

(* lines 213-216: batch_completion returns one slot per prompt, by position *)
JudgeBatch ==
    /\ pc = "judge"
    /\ judge_responses' \in [1..Len(qrys) -> JudgeResponses]
    /\ pc' = "join"
    /\ UNCHANGED <<orig_df, flat_orig_df, runs, prev_df, papers, qi, attempt, responses,
                   resp_df, error_cases, qrys, metrics, prev_metrics>>

(* lines 217-230: parse the judge responses, assemble the records, merge *)
JoinJudge ==
    /\ pc = "join"
    /\ LET records == JudgeRecords(resp_df, error_cases, judge_responses)
       IN IF MergeRaises(records)
          THEN /\ pc' = "crashed"
               /\ UNCHANGED resp_df
          ELSE /\ pc' = "score"
               /\ resp_df' = LeftMerge(resp_df, records)
    /\ UNCHANGED <<orig_df, flat_orig_df, runs, prev_df, papers, qi, attempt, responses,
                   error_cases, qrys, judge_responses, metrics, prev_metrics>>

(* line 231 *)
ComputeMetrics ==
    /\ pc = "score"
    /\ metrics' = compute_all_metrics(resp_df)
    /\ pc' = "done"
    /\ UNCHANGED <<orig_df, flat_orig_df, runs, prev_df, papers, qi, attempt, responses,
                   resp_df, error_cases, qrys, judge_responses, prev_metrics>>

Next ==
    \/ NormalizeRecords
    \/ BuildReviewerPrompts
    \/ ReviewerCallReturns
    \/ ReviewerCallRaises
    \/ ParseReviewer
    \/ BuildJudgePrompts
    \/ JudgeBatch
    \/ JoinJudge
    \/ ComputeMetrics

Spec == Init /\ [][Next]_vars

----------------------------------------------------------------------------
(* Claims about the notebook run *)

Joined == pc \in {"score", "done"}

NeedsJudge(row) == row.parsed /\ row.is_error

(* C1: after the join, the judge response at position j of the batch is   *)
(* attached to the paper whose prompt was at position j and to no other:  *)
(* a paper has match fields only if parsed and is_error, and every other  *)
(* paper has null match fields.                                            *)
C1_JudgeResultAttachedToItsPaper ==
    Joined =>
        /\ \A j \in 1..Len(error_cases) :
              LET row == RowOf(resp_df, error_cases[j].id)
              IN row.matches = ListOf(extract_response_dict(judge_responses[j]).matches)
        /\ \A i \in 1..Len(resp_df) :
              NeedsJudge(resp_df[i]) <=> resp_df[i].matches # Null
        /\ \A i \in 1..Len(resp_df) :
              ~NeedsJudge(resp_df[i]) => resp_df[i].match_descriptions = Null

InReview == pc = "review"

(* one step of the retry loop: either the paper is left for the next one  *)
(* with exactly one new slot, absent only after the fifth attempt, or     *)
(* the same paper is tried again, which happens only after a failure and  *)
(* before the fifth attempt                                                *)
RetryStep ==
    \/ /\ qi' = qi + 1
       /\ attempt' = 1
       /\ Len(responses') = Len(responses) + 1
       /\ SubSeq(responses', 1, Len(responses)) = responses
       /\ responses'[Len(responses')] = Null => attempt = MaxAttempts
    \/ /\ qi' = qi
       /\ attempt < MaxAttempts
       /\ attempt' = attempt + 1
       /\ responses' = responses

(* C2: in the reviewer stage every paper is called at least once and at   *)
(* most 5 times, no attempt follows a paper's first success, five         *)
(* failures record None and move on, so that the response list has one    *)
(* slot per paper in paper order and the batch is never aborted.           *)
C2_RetryLoopOneSlotPerPaper ==
    /\ [](InReview => /\ attempt \in 1..MaxAttempts
                      /\ qi \in 1..(Len(papers) + 1)
                      /\ Len(responses) = qi - 1)
    /\ [](pc \notin {"normalize", "prompts", "review"} => Len(responses) = Len(papers))
    /\ [][(InReview /\ qi <= Len(papers)) => (pc' = "review" /\ RetryStep)]_vars

C2_Witness ==
    /\ InReview
    /\ qi > Len(papers)
    /\ Len(responses) >= 2
    /\ responses[1] = Null
    /\ responses[2] # Null

(* C3: a paper for which no judge prompt was issued is scored TP = 0,     *)
(* FP = 0, FN = k_i, whatever happens to the other papers.                 *)
C3_UnjudgedPaperScoresZero ==
    pc = "done" =>
        \A i \in 1..Len(resp_df) :
            ~NeedsJudge(resp_df[i]) =>
                /\ metrics.per_paper[i].TP_i = 0
                /\ metrics.per_paper[i].FP_i = 0
                /\ metrics.per_paper[i].FN_i = metrics.per_paper[i].k_i

InUnit(r) == 0 <= r.num /\ r.num <= r.den

(* C5: micro precision and micro recall are in [0,1] for every input, and *)
(* are 0 when their denominator sum is 0.                                  *)
C5_MicroAveragesAreProbabilities ==
    pc = "done" =>
        LET pp == metrics.per_paper
            tp == SumSeq([j \in 1..Len(pp) |-> pp[j].TP_i])
            fp == SumSeq([j \in 1..Len(pp) |-> pp[j].FP_i])
            fn == SumSeq([j \in 1..Len(pp) |-> pp[j].FN_i])
        IN /\ InUnit(metrics.precision_micro)
           /\ InUnit(metrics.recall_micro)
           /\ tp + fp = 0 => metrics.precision_micro = Zero
           /\ tp + fn = 0 => metrics.recall_micro = Zero

NoneParsed == resp_df # <<>> /\ \A i \in 1..Len(resp_df) : ~resp_df[i].parsed

(* C7: when no reviewer response parses, the run still completes with     *)
(* every paper scored: TP_i = 0, micro precision 0, micro recall 0, and    *)
(* PPR 0 unless some paper has k_i = 0.                                    *)
C7_AllUnparsedRunCompletes ==
    (pc \in {"crashed", "score", "done"} /\ NoneParsed) =>
        /\ pc # "crashed"
        /\ pc = "done" =>
              /\ \A i \in 1..Len(resp_df) : metrics.per_paper[i].TP_i = 0
              /\ metrics.precision_micro = Zero
              /\ metrics.recall_micro = Zero
              /\ \/ metrics.PPR = Zero
                 \/ \E i \in 1..Len(resp_df) : metrics.per_paper[i].k_i = 0

----------------------------------------------------------------------------
(* The record normalizer applied to a raw table, and again to its result *)

InitNorm ==
    /\ pc = "raw"
    /\ orig_df \in RawTables
    /\ flat_orig_df = <<>>
    /\ runs = 0
    /\ prev_df = <<>>
    /\ papers = <<>>
    /\ qi = 0
    /\ attempt = 0
    /\ responses = <<>>
    /\ resp_df = <<>>
    /\ error_cases = <<>>
    /\ qrys = <<>>
    /\ judge_responses = <<>>
    /\ metrics = Null
    /\ prev_metrics = Null

(* lines 106-116 on the raw table *)
NormalizeRaw ==
    /\ pc = "raw"
    /\ flat_orig_df' = Normalize(orig_df)
    /\ prev_df' = orig_df
    /\ runs' = 1
    /\ pc' = "normalized"
    /\ UNCHANGED <<orig_df, papers, qi, attempt, responses, resp_df,
                   error_cases, qrys, judge_responses, metrics, prev_metrics>>

(* lines 106-116 on a table that is already normalized *)
NormalizeAgain ==
    /\ pc = "normalized"
    /\ flat_orig_df' = Normalize(flat_orig_df)
    /\ prev_df' = flat_orig_df
    /\ runs' = 2
    /\ pc' = "renormalized"
    /\ UNCHANGED <<orig_df, papers, qi, attempt, responses, resp_df,
                   error_cases, qrys, judge_responses, metrics, prev_metrics>>

NextNorm == NormalizeRaw \/ NormalizeAgain

SpecNorm == InitNorm /\ [][NextNorm]_vars

(* C8 as stated: normalizing a normalized table yields the same table,    *)
(* in particular the same error_annotation lists and the same k_i.         *)
C8_NormalizerIdempotent ==
    pc = "renormalized" =>
        /\ flat_orig_df = prev_df
        /\ \A i \in 1..Len(flat_orig_df) :
              Len(flat_orig_df[i].error_annotation.l) = Len(prev_df[i].error_annotation.l)

(* C8 amended: normalizing a normalized table keeps one row per           *)
(* identifier, in the same order, with the same identifier and the same   *)
(* first-valued columns, and turns each list-valued field into a           *)
(* one-element list holding the former list, so that k_i becomes 1.        *)
C8_RenormalizeWrapsLists ==
    pc = "renormalized" =>
        /\ Len(flat_orig_df) = Len(prev_df)
        /\ \A i \in 1..Len(flat_orig_df) :
              /\ flat_orig_df[i].id = prev_df[i].id
              /\ flat_orig_df[i].paper_content = prev_df[i].paper_content
              /\ flat_orig_df[i].paper_category = ListOf(<<prev_df[i].paper_category>>)
              /\ flat_orig_df[i].error_location = ListOf(<<prev_df[i].error_location>>)
              /\ flat_orig_df[i].error_annotation = ListOf(<<prev_df[i].error_annotation>>)
              /\ Len(flat_orig_df[i].error_annotation.l) = 1

C8_Witness ==
    /\ pc = "renormalized"
    /\ Len(prev_df) = 2
    /\ Len(prev_df[1].error_annotation.l) = 2

(* the cells of one column in the raw rows carrying an identifier, in row order *)
RawCells(df, id, col) ==
    LET rows == SelectSeq(df, LAMBDA r : r.id = id)
    IN [n \in 1..Len(rows) |-> rows[n][col]]

(* C10: the normalizer outputs exactly one record per distinct            *)
(* identifier; error_location and error_annotation have equal length, the *)
(* number of raw rows with that identifier, in source row order; the k_i  *)
(* add up to the number of raw rows.                                       *)
C10_OneRecordPerIdParallelLists ==
    pc = "normalized" =>
        /\ \A i, j \in 1..Len(flat_orig_df) :
              flat_orig_df[i].id = flat_orig_df[j].id => i = j
        /\ {flat_orig_df[i].id : i \in 1..Len(flat_orig_df)}
              = {orig_df[j].id : j \in 1..Len(orig_df)}
        /\ \A i \in 1..Len(flat_orig_df) :
              LET rec == flat_orig_df[i]
                  n   == Cardinality({j \in 1..Len(orig_df) : orig_df[j].id = rec.id})
              IN /\ Len(rec.error_location.l) = n
                 /\ Len(rec.error_annotation.l) = n
                 /\ rec.error_location.l = RawCells(orig_df, rec.id, "error_location")
                 /\ rec.error_annotation.l = RawCells(orig_df, rec.id, "error_annotation")
        /\ SumSeq([i \in 1..Len(flat_orig_df) |-> Len(flat_orig_df[i].error_annotation.l)])
              = Len(orig_df)

C10_Witness ==
    /\ pc = "normalized"
    /\ Len(orig_df) = 3
    /\ orig_df[1].id = 2 /\ orig_df[2].id = 1 /\ orig_df[3].id = 2
    /\ orig_df[1].error_annotation # orig_df[3].error_annotation
    /\ Len(flat_orig_df) = 2

----------------------------------------------------------------------------
(* compute_all_metrics applied to a table of any content: the columns it  *)
(* reads hold a list, the text of a list (a table read back from CSV) or  *)
(* nothing.                                                                *)

Str(xs) == [str |-> xs]

AnnotationCells == {ListOf(<<>>), ListOf(<<Scalar("a1")>>)}

ErrorCells == {Null} \cup {ListOf(es) : es \in ErrorLists}

(* the matches and match_descriptions cells of one row *)
MatchCellPairs ==
    {<<Null, Null>>}
    \cup {<<ListOf([j \in 1..n |-> Match(j)]), ListOf([j \in 1..n |-> j])>> : n \in {1, MaxMatches}}
    \cup {<<Str(<<Match(1), Match(2)>>), ListOf(<<1>>)>>, <<Str(<<Match(1)>>), Null>>}

MetricRow(id, ann, errs, mm) ==
    [id |-> id, error_annotation |-> ann, errors |-> errs,
     matches |-> mm[1], match_descriptions |-> mm[2]]

MetricTables ==
    UNION {[1..n -> AnnotationCells \X ErrorCells \X MatchCellPairs] : n \in 1..MaxMetricRows}

InitMetrics ==
    /\ pc = "input"
    /\ \E t \in MetricTables :
          resp_df = [j \in 1..Len(t) |-> MetricRow(j, t[j][1], t[j][2], t[j][3])]
    /\ orig_df = <<>>
    /\ flat_orig_df = <<>>
    /\ runs = 0
    /\ prev_df = <<>>
    /\ papers = <<>>
    /\ qi = 0
    /\ attempt = 0
    /\ responses = <<>>
    /\ error_cases = <<>>
    /\ qrys = <<>>
    /\ judge_responses = <<>>
    /\ metrics = Null
    /\ prev_metrics = Null

(* lines 23-80 *)
ScoreTable ==
    /\ pc = "input"
    /\ metrics' = compute_all_metrics(resp_df)
    /\ pc' = "scored"
    /\ UNCHANGED <<orig_df, flat_orig_df, runs, prev_df, papers, qi, attempt, responses,
                   resp_df, error_cases, qrys, judge_responses, prev_metrics>>

(* the same table with one more prediction that the judge matched with nothing *)
AddUnmatchedPrediction ==
    /\ pc = "scored"
    /\ prev_metrics = Null
    /\ \E i \in 1..Len(resp_df) :
          /\ IsList(resp_df[i].errors)
          /\ resp_df' = [resp_df EXCEPT ![i].errors =
                            ListOf(Append(@.l, Len(@.l) + 1))]
    /\ prev_metrics' = metrics
    /\ metrics' = Null
    /\ pc' = "input"
    /\ UNCHANGED <<orig_df, flat_orig_df, runs, prev_df, papers, qi, attempt, responses,
                   error_cases, qrys, judge_responses>>

NextMetrics == ScoreTable \/ AddUnmatchedPrediction

SpecMetrics == InitMetrics /\ [][NextMetrics]_vars

PredictedCount(row) == IF IsList(row.errors) THEN Len(row.errors.l) ELSE 0

(* C6: for every paper of the per-paper breakdown TP_i + FN_i = k_i and   *)
(* TP_i + FP_i = the number of predicted errors, also when TP_i exceeds   *)
(* k_i or the predicted count.                                             *)
C6_CountsAddUp ==
    pc = "scored" =>
        \A i \in 1..Len(resp_df) :
            LET c == metrics.per_paper[i]
            IN /\ c.k_i = Len(resp_df[i].error_annotation.l)
               /\ c.TP_i + c.FN_i = c.k_i
               /\ c.TP_i + c.FP_i = PredictedCount(resp_df[i])

C6_Witness ==
    /\ pc = "scored"
    /\ \E i \in 1..Len(resp_df) :
          /\ metrics.per_paper[i].TP_i > metrics.per_paper[i].k_i
          /\ metrics.per_paper[i].TP_i > PredictedCount(resp_df[i])
          /\ PredictedCount(resp_df[i]) > 0

(* C9: PPR is the number of papers with TP_i = k_i over N, a paper with   *)
(* k_i = 0 and TP_i = 0 counts as perfect, and adding unmatched           *)
(* predictions to a paper leaves PPR unchanged.                            *)
C9_PPRCountsPerfectPapersOnly ==
    pc = "scored" =>
        LET pp == metrics.per_paper
        IN /\ metrics.N = Len(resp_df)
           /\ metrics.PPR.num * metrics.N
                 = Cardinality({i \in 1..Len(pp) : pp[i].TP_i = pp[i].k_i}) * metrics.PPR.den
           /\ (\A i \in 1..Len(pp) : pp[i].k_i = 0 /\ pp[i].TP_i = 0) => metrics.PPR = Ratio(1, 1)
           /\ prev_metrics # Null =>
                 /\ \A i \in 1..Len(pp) :
                       /\ pp[i].TP_i = prev_metrics.per_paper[i].TP_i
                       /\ pp[i].k_i = prev_metrics.per_paper[i].k_i
                       /\ pp[i].FP_i >= prev_metrics.per_paper[i].FP_i
                 /\ \E i \in 1..Len(pp) : pp[i].FP_i > prev_metrics.per_paper[i].FP_i
                 /\ metrics.PPR = prev_metrics.PPR

C9_Witness ==
    /\ pc = "scored"
    /\ prev_metrics # Null
    /\ Len(resp_df) = 2
    /\ metrics.per_paper[1].k_i = 0 /\ metrics.per_paper[1].TP_i = 0
    /\ metrics.per_paper[1].FP_i = 1 /\ prev_metrics.per_paper[1].FP_i = 0
    /\ metrics.per_paper[2].TP_i # metrics.per_paper[2].k_i
    /\ metrics.PPR = Ratio(1, 2)

----------------------------------------------------------------------------
(* Two runs over the same papers with the same per-paper model outcomes,  *)
(* the second with the identifiers exchanged, so that groupby hands the   *)
(* papers to the loops in another order.                                   *)

Crashed == [crashed |-> TRUE]

(* lines 106-231 for given per-paper outcomes: rev[id] is the slot the    *)
(* reviewer loop ends with for the paper, jud[id] the judge's response to *)
(* the paper's prompt                                                      *)
Evaluate(raw, rev, jud) ==
    LET flat    == Normalize(raw)
        ids     == PaperIds(flat)
        df      == ReviewerTable(ids, [j \in 1..Len(ids) |-> rev[ids[j]]], flat)
        cases   == ErrorCases(df)
        jres    == [j \in 1..Len(cases) |-> jud[cases[j].id]]
        records == JudgeRecords(df, cases, jres)
    IN IF MergeRaises(records) THEN Crashed
       ELSE compute_all_metrics(LeftMerge(df, records))

Relabel(raw, perm) == [j \in 1..Len(raw) |-> [raw[j] EXCEPT !.id = perm[raw[j].id]]]

Inverse(perm) == [y \in Ids |-> CHOOSE x \in Ids : perm[x] = y]

PresentIds(raw) == {raw[j].id : j \in 1..Len(raw)}

InitOrder ==
    /\ pc = "order"
    /\ orig_df \in PipelineTables
    /\ responses \in [PresentIds(orig_df) -> ReviewerResponses \cup {Null}]
    /\ judge_responses \in [PresentIds(orig_df) -> JudgeResponses]
    /\ papers = [x \in Ids |-> x]
    /\ prev_df = <<>>
    /\ flat_orig_df = <<>>
    /\ runs = 0
    /\ qi = 0
    /\ attempt = 0
    /\ resp_df = <<>>
    /\ error_cases = <<>>
    /\ qrys = <<>>
    /\ metrics = Null
    /\ prev_metrics = Null

(* the same papers under exchanged identifiers *)
RelabelPapers ==
    /\ pc = "order"
    /\ \E perm \in Permutations(Ids) :
          /\ papers' = perm
          /\ prev_df' = Relabel(orig_df, perm)
    /\ pc' = "reference"
    /\ UNCHANGED <<orig_df, flat_orig_df, runs, qi, attempt, responses, resp_df,
                   error_cases, qrys, judge_responses, metrics, prev_metrics>>

EvaluateReference ==
    /\ pc = "reference"
    /\ prev_metrics' = Evaluate(orig_df, responses, judge_responses)
    /\ pc' = "permuted"
    /\ UNCHANGED <<orig_df, flat_orig_df, runs, prev_df, papers, qi, attempt, responses,
                   resp_df, error_cases, qrys, judge_responses, metrics>>

EvaluatePermuted ==
    /\ pc = "permuted"
    /\ LET inv == Inverse(papers)
           ids == PresentIds(prev_df)
       IN metrics' = Evaluate(prev_df, [y \in ids |-> responses[inv[y]]],
                              [y \in ids |-> judge_responses[inv[y]]])
    /\ pc' = "compared"
    /\ UNCHANGED <<orig_df, flat_orig_df, runs, prev_df, papers, qi, attempt, responses,
                   resp_df, error_cases, qrys, judge_responses, prev_metrics>>

NextOrder == RelabelPapers \/ EvaluateReference \/ EvaluatePermuted

SpecOrder == InitOrder /\ [][NextOrder]_vars

CountsOf(m, id) ==
    LET c == RowOf(m.per_paper, id)
    IN <<c.k_i, c.TP_i, c.FP_i, c.FN_i>>

(* C4: with the per-paper reviewer and judge outcomes fixed, processing   *)
(* the papers in another order leaves every paper's (k_i, TP_i, FP_i,     *)
(* FN_i) and all corpus metrics unchanged.                                 *)
C4_OrderDoesNotAffectScores ==
    pc = "compared" =>
        \/ metrics = Crashed /\ prev_metrics = Crashed
        \/ /\ metrics # Crashed
           /\ prev_metrics # Crashed
           /\ \A p \in PresentIds(orig_df) :
                 CountsOf(prev_metrics, p) = CountsOf(metrics, papers[p])
           /\ metrics.precision_micro = prev_metrics.precision_micro
           /\ metrics.recall_micro = prev_metrics.recall_micro
           /\ metrics.precision_macro = prev_metrics.precision_macro
           /\ metrics.recall_macro = prev_metrics.recall_macro
           /\ metrics.PPR = prev_metrics.PPR

====
